---------------------------- MODULE Spec2Model ----------------------------
(***************************************************************************)
(* State-machine model of dns_migration.py: the throttling registrar       *)
(* client (GoDaddyClient), the Domain object with its cached records and   *)
(* zone id, the migration decision, and the per-domain loop of __main__.   *)
(*                                                                         *)
(* The specifications of the module:                                        *)
(*   Spec        the batch run of __main__ against the two backends;       *)
(*   SpecGateway the two backend clients called at arbitrary times;        *)
(*   SpecDecide  requires_zone_migration applied to bounded record lists;  *)
(*   SpecTransform r53_create_records applied to bounded record lists;     *)
(*   SpecLookup  the batch run against destinations that host other zones. *)
(* The backends are outside the program: every reply they can give         *)
(* (a value or an exception class the code distinguishes) is drawn with \E.*)
(***************************************************************************)
EXTENDS Integers, Sequences, FiniteSets, TLC

(* ------------------------------ bounds -------------------------------- *)
\* number of rows of the input table (domains of the batch)
NumDomains == 2
\* longest record list the decision function is applied to in SpecDecide
MaxRecords == 7
\* granularity of the wall clock in SpecGateway, in milliseconds
Quantum == 250
\* the wall clock of SpecGateway stops being advanced past this, in ms
MaxClock == 3000
\* most hosted zones at the destination when the run of SpecLookup starts
MaxZones == 2
\* longest registrar record list r53_create_records is applied to in SpecTransform
MaxBatchRecords == 3

(* ------------------------- program constants -------------------------- *)
\* GoDaddyClient.wait_time = timedelta(milliseconds=1000)
wait_time == 1000
\* requires_zone_migration: len(self.records) <= 6
ParkedRecordLimit == 6

(* ------------------------------ values -------------------------------- *)
\* Python None for a string-valued attribute
NoneStr == "None"
\* Python None / a list, for self._records
NoneList == [isNone |-> TRUE, list |-> <<>>]
SomeList(l) == [isNone |-> FALSE, list |-> l]
\* Python truthiness of self._records: None and [] are both falsy
Truthy(r) == ~r.isNone /\ Len(r.list) > 0

Rec(n, t, d) == [name |-> n, type |-> t, data |-> d, ttl |-> 3600, priority |-> 10]

ParkedApex == Rec("@", "A", "Parked")

\* registrar zones the batch run is exercised with
EmptyZone == <<>>
LiveZone == << Rec("@", "A", "1.2.3.4"), Rec("@", "MX", "mail.example.net") >>
ParkedLargeZone ==
  << ParkedApex, Rec("@", "NS", "ns1.domaincontrol.com"),
     Rec("@", "NS", "ns2.domaincontrol.com"), Rec("www", "CNAME", "@"),
     Rec("_domainconnect", "CNAME", "_domainconnect.gd.domaincontrol.com"),
     Rec("@", "SOA", "ns1.domaincontrol.com"), Rec("shop", "A", "5.6.7.8") >>
RegistrarZones == {EmptyZone, LiveZone, ParkedLargeZone}

Rows == 1..NumDomains
\* Domain.name of row i (already lower-cased and stripped)
DomainName(i) == "d" \o ToString(i) \o ".com"
\* a hosted zone that exists at the destination before the run
PreZone(i) == [Name |-> DomainName(i) \o ".", Id |-> "/hostedzone/P" \o ToString(i)]
\* the hosted zone create_hosted_zone makes for row i
NewZone(i) == [Name |-> DomainName(i) \o ".", Id |-> "/hostedzone/C" \o ToString(i)]
\* response['DelegationSet']['NameServers'] of get_hosted_zone
DelegationSet == <<"ns-1.awsdns.org", "ns-2.awsdns.net">>

BlankRow == [has_dns |-> "", requires |-> "", zone_id |-> "", created |-> "", email |-> ""]

VARIABLES
  \* ---- the backends
  gdZone,          \* registrar: row -> record list served by getRecords
  r53HostedZones,  \* destination: sequence of [Name, Id]
  \* ---- the program (Spec)
  pc,              \* position of __main__
  cur,             \* index of the domain being processed
  _records,        \* Domain._records per row
  _r53_zone_id,    \* Domain._r53_zone_id per row
  nameservers,     \* local of the loop body
  domains_data,    \* the report table, one row per input row
  written,         \* domains_data.to_csv(OUTPUT_FILE) has run
  fatal,           \* the call site an uncaught exception left from, or ""
  fatalClass,      \* the class of that exception, or ""
  \* ---- what was asked of the backends for domain `cur` (history)
  gdGetCalls,      \* number of client.get_records invocations
  gdGetReplies,    \* the replies get_records gave, in order
  zoneLookups,     \* number of list_hosted_zones_by_name invocations
  createReply,     \* reply of create_hosted_zone, or "none"
  lookupAfterCreate, \* a lookup returned a listing after the create call
  applyArg,        \* HostedZoneId given to change_resource_record_sets, or "-"
  changeBatch,     \* the Changes given to change_resource_record_sets
  updReply,        \* reply of client.update_domain, or "none"
  updReturn,       \* return value of gd_update_nameservers, or "none"
  nsReply,         \* how the get_hosted_zone call of r53_get_nameservers ended, or "none"
  \* ---- SpecGateway
  now,             \* the wall clock, ms
  last_call_time,  \* GoDaddyClient.last_call_time
  starts,          \* start times of the backend invocations made so far
  r53_starts,      \* start times of the r53_client invocations made so far
  \* ---- SpecDecide
  recs,            \* the record list under decision
  decision         \* "none", or the value requires_zone_migration returned

vars == << gdZone, r53HostedZones, pc, cur, _records, _r53_zone_id, nameservers,
           domains_data, written, fatal, fatalClass, gdGetCalls, gdGetReplies, zoneLookups,
           createReply, lookupAfterCreate, applyArg, changeBatch, updReply,
           updReturn, nsReply, now, last_call_time, starts, r53_starts, recs,
           decision >>

gatewayVars == << now, last_call_time, starts, r53_starts >>
decideVars == << recs, decision >>
mainVars == << gdZone, r53HostedZones, pc, cur, _records, _r53_zone_id, nameservers,
               domains_data, written, fatal, fatalClass, gdGetCalls, gdGetReplies, zoneLookups,
               createReply, lookupAfterCreate, applyArg, changeBatch, updReply,
               updReturn, nsReply >>

(* ----------------------- replies of the backends ---------------------- *)
\* godaddypy Client.get_records / update_domain: a value, BadResponse, or
\* any other exception (transport error)
GdReplies == {"ok", "BadResponse", "Error"}
\* route53 list_hosted_zones_by_name
LookupReplies == {"ok", "InvalidInput", "InvalidDomainName", "Error"}
\* route53 change_resource_record_sets
CallReplies == {"ok", "Error"}

ZoneNames(zones) == {zones[k].Name : k \in 1..Len(zones)}
\* route53 create_hosted_zone for row i: refuses a name that has a zone
CreateReplies(i) ==
  IF DomainName(i) \o "." \in ZoneNames(r53HostedZones)
    THEN {"HostedZoneAlreadyExists", "Error"}
    ELSE {"ok", "Error"}

(* ------------------------- Domain: pure parts ------------------------- *)
\* Domain.gd_dns_exists on the list self.records returned
gd_dns_exists(list) == Len(list) > 0

RECURSIVE domain_parked(_)
\* the loop of requires_zone_migration that sets domain_parked
domain_parked(list) ==
  IF list = <<>> THEN FALSE
  ELSE LET record == Head(list) IN
       IF record.name = "@" /\ record.type = "A" /\ record.data = "Parked"
         THEN TRUE
         ELSE domain_parked(Tail(list))

\* requires_zone_migration with the record count compared by < instead of <=
requires_zone_migration_lt(list) ==
  IF ~gd_dns_exists(list) THEN FALSE
  ELSE IF ~domain_parked(list) THEN TRUE
  ELSE IF Len(list) < ParkedRecordLimit THEN TRUE
  ELSE FALSE

\* Domain.requires_zone_migration on the list self.records returned
requires_zone_migration(list) ==
  IF ~gd_dns_exists(list) THEN FALSE
  ELSE IF ~domain_parked(list) THEN TRUE
  ELSE IF Len(list) <= ParkedRecordLimit THEN TRUE
  ELSE FALSE

RECURSIVE has_mx_records(_)
\* Domain.has_mx_records on the list self.records returned
has_mx_records(list) ==
  IF list = <<>> THEN FALSE
  ELSE IF Head(list).type = "MX" THEN TRUE
  ELSE has_mx_records(Tail(list))

YesNo(b) == IF b THEN "Yes" ELSE "No"

(* --------------------- Domain: the cached properties ------------------ *)
\* Domain.records, the registrar answering `reply` if it is asked
records(self, reply) ==
  IF Truthy(_records[self])
    THEN [raised |-> FALSE, called |-> FALSE, val |-> _records[self]]
  ELSE IF reply = "ok"
    THEN [raised |-> FALSE, called |-> TRUE, val |-> SomeList(gdZone[self])]
  ELSE IF reply = "BadResponse"
    THEN [raised |-> FALSE, called |-> TRUE, val |-> SomeList(<<>>)]
  ELSE [raised |-> TRUE, called |-> TRUE, val |-> _records[self]]

\* Python's `a or b` on two exception classes (a class is truthy)
PyOr(a, b) == IF a # "" THEN a ELSE b
\* the classes the except clause of the r53_zone_id getter names
ZoneLookupCaught == {PyOr("InvalidInput", "InvalidDomainName")}

RECURSIVE MatchZone(_, _, _)
\* the for loop of the getter: the Id of the first zone named `name`, else cached
MatchZone(zones, name, cached) ==
  IF zones = <<>> THEN cached
  ELSE IF Head(zones).Name = name THEN Head(zones).Id
  ELSE MatchZone(Tail(zones), name, cached)

\* the getter comparing zone['Name'] with self.name, the trailing dot left out
r53_zone_id_nodot(self, reply) ==
  IF _r53_zone_id[self] # NoneStr
    THEN [raised |-> FALSE, called |-> FALSE, val |-> _r53_zone_id[self]]
  ELSE IF reply = "ok"
    THEN [raised |-> FALSE, called |-> TRUE,
          val |-> MatchZone(r53HostedZones, DomainName(self), _r53_zone_id[self])]
  ELSE IF reply \in ZoneLookupCaught
    THEN [raised |-> FALSE, called |-> TRUE, val |-> _r53_zone_id[self]]
  ELSE [raised |-> TRUE, called |-> TRUE, val |-> _r53_zone_id[self]]

\* the getter taking the first zone of the listing, whatever its name
r53_zone_id_first(self, reply) ==
  IF _r53_zone_id[self] # NoneStr
    THEN [raised |-> FALSE, called |-> FALSE, val |-> _r53_zone_id[self]]
  ELSE IF reply = "ok"
    THEN [raised |-> FALSE, called |-> TRUE,
          val |-> IF r53HostedZones = <<>> THEN _r53_zone_id[self]
                  ELSE Head(r53HostedZones).Id]
  ELSE IF reply \in ZoneLookupCaught
    THEN [raised |-> FALSE, called |-> TRUE, val |-> _r53_zone_id[self]]
  ELSE [raised |-> TRUE, called |-> TRUE, val |-> _r53_zone_id[self]]

\* the getter without the test of line 103: the zone is looked up at every read
r53_zone_id_nomemo(self, reply) ==
  IF reply = "ok"
    THEN [raised |-> FALSE, called |-> TRUE,
          val |-> MatchZone(r53HostedZones, DomainName(self) \o ".", _r53_zone_id[self])]
  ELSE IF reply \in ZoneLookupCaught
    THEN [raised |-> FALSE, called |-> TRUE, val |-> _r53_zone_id[self]]
  ELSE [raised |-> TRUE, called |-> TRUE, val |-> _r53_zone_id[self]]

\* Domain.r53_zone_id (getter), the destination answering `reply` if it is asked
r53_zone_id(self, reply) ==
  IF _r53_zone_id[self] # NoneStr
    THEN [raised |-> FALSE, called |-> FALSE, val |-> _r53_zone_id[self]]
  ELSE IF reply = "ok"
    THEN [raised |-> FALSE, called |-> TRUE,
          val |-> MatchZone(r53HostedZones, DomainName(self) \o ".", _r53_zone_id[self])]
  ELSE IF reply \in ZoneLookupCaught
    THEN [raised |-> FALSE, called |-> TRUE, val |-> _r53_zone_id[self]]
  ELSE [raised |-> TRUE, called |-> TRUE, val |-> _r53_zone_id[self]]

\* gd_update_nameservers catching BadResponse only
gd_update_nameservers_narrow(reply) ==
  IF reply = "ok" THEN [raised |-> FALSE, ret |-> TRUE]
  ELSE IF reply = "BadResponse" THEN [raised |-> FALSE, ret |-> FALSE]
  ELSE [raised |-> TRUE, ret |-> FALSE]

\* Domain.gd_update_nameservers: the return value, or the exception leaving it
gd_update_nameservers(reply) ==
  IF reply = "ok" THEN [raised |-> FALSE, ret |-> TRUE]
  ELSE [raised |-> FALSE, ret |-> FALSE]

(* ------------------------------ Spec ---------------------------------- *)
\* The batch run. GoDaddyClient's pacing touches only the clock and
\* last_call_time, which no branch of the run reads: Spec leaves both alone
\* and SpecGateway models the pacing of the registrar calls.
otherVars == << now, last_call_time, starts, r53_starts, recs, decision >>

\* nothing has been asked of the backends for the current domain
NoHistory ==
  /\ gdGetCalls = 0
  /\ gdGetReplies = <<>>
  /\ zoneLookups = 0
  /\ createReply = "none"
  /\ lookupAfterCreate = FALSE
  /\ applyArg = "-"
  /\ changeBatch = <<>>
  /\ updReply = "none"
  /\ updReturn = "none"
  /\ nsReply = "none"

\* the program after lines 1-335: the clients and the Domain objects are built
ProgramStart ==
  /\ pc = "gd_dns_exists"
  /\ cur = 1
  /\ _records = [i \in Rows |-> NoneList]
  /\ _r53_zone_id = [i \in Rows |-> NoneStr]
  /\ nameservers = <<>>
  /\ domains_data = [i \in Rows |-> BlankRow]
  /\ written = FALSE
  /\ fatal = "" /\ fatalClass = ""
  /\ NoHistory
  \* GoDaddyClient.__init__: self.last_call_time = datetime.now()
  /\ now = 0 /\ last_call_time = 0 /\ starts = <<>> /\ r53_starts = <<>>
  /\ recs = <<>> /\ decision = "none"

\* the batch run starts with any registrar zones and any of the domains' zones
\* already hosted at the destination
Init ==
  /\ gdZone \in [Rows -> RegistrarZones]
  /\ \E pre \in SUBSET Rows :
       r53HostedZones = [k \in 1..Cardinality(pre) |->
          PreZone(CHOOSE i \in pre : Cardinality({j \in pre : j < i}) = k - 1)]
  /\ ProgramStart

\* an exception nobody catches leaves __main__ at `site`
Raise(site, class) == pc' = "aborted" /\ fatal' = site /\ fatalClass' = class

\* the registrar call of one evaluation r of self.records, if it made one
RecordsAsked(reply, r) ==
  /\ gdGetCalls' = gdGetCalls + (IF r.called THEN 1 ELSE 0)
  /\ gdGetReplies' = IF r.called THEN Append(gdGetReplies, reply) ELSE gdGetReplies

\* what one evaluation z of self.r53_zone_id leaves behind
ZoneIdRead(reply, z) ==
  /\ _r53_zone_id' = [_r53_zone_id EXCEPT ![cur] = z.val]
  /\ zoneLookups' = zoneLookups + (IF z.called THEN 1 ELSE 0)
  /\ lookupAfterCreate' =
        (lookupAfterCreate \/ (z.called /\ reply = "ok" /\ createReply # "none"))

\* what one evaluation r of self.records leaves behind
RecordsRead(reply, r) ==
  /\ _records' = [_records EXCEPT ![cur] = r.val]
  /\ RecordsAsked(reply, r)

gdHist == << gdGetCalls, gdGetReplies >>
applyHist == << applyArg, changeBatch >>
zoneHist == << zoneLookups, lookupAfterCreate >>
noRaise == << fatal, fatalClass >>

\* line 339: domains_data.at[..., 'Has GoDaddy DNS'] = ... domain.gd_dns_exists()
Main_gd_dns_exists ==
  /\ pc = "gd_dns_exists"
  /\ \E reply \in GdReplies :
       LET r == records(cur, reply) IN
       /\ RecordsRead(reply, r)
       /\ IF r.raised
            THEN Raise("gd_dns_exists", reply) /\ UNCHANGED domains_data
            ELSE /\ pc' = "requires_zone_migration"
                 /\ domains_data' = [domains_data EXCEPT
                       ![cur].has_dns = YesNo(gd_dns_exists(r.val.list))]
                 /\ UNCHANGED noRaise
  /\ UNCHANGED << gdZone, r53HostedZones, cur, _r53_zone_id, nameservers, written,
                  zoneHist, createReply, applyHist, updReply, updReturn, nsReply, otherVars >>

\* lines 340-341, 353-355: if domain.requires_zone_migration(): ... else: ...
Main_requires_zone_migration ==
  /\ pc = "requires_zone_migration"
  /\ \E reply \in GdReplies :
       LET r == records(cur, reply) IN
       /\ RecordsRead(reply, r)
       /\ IF r.raised
            THEN Raise("requires_zone_migration", reply) /\ UNCHANGED domains_data
            ELSE /\ UNCHANGED noRaise
                 /\ IF requires_zone_migration(r.val.list)
                      THEN /\ pc' = "r53_zone_exists"
                           /\ domains_data' = [domains_data EXCEPT ![cur].requires = "Yes"]
                      ELSE /\ pc' = "has_mx_records"
                           /\ domains_data' = [domains_data EXCEPT
                                 ![cur].requires = "No", ![cur].created = "No"]
  /\ UNCHANGED << gdZone, r53HostedZones, cur, _r53_zone_id, nameservers, written,
                  zoneHist, createReply, applyHist, updReply, updReturn, nsReply, otherVars >>

\* line 343: if not domain.r53_zone_exists():
Main_r53_zone_exists ==
  /\ pc = "r53_zone_exists"
  /\ \E reply \in LookupReplies :
       LET z == r53_zone_id(cur, reply) IN
       /\ ZoneIdRead(reply, z)
       /\ IF z.raised
            THEN Raise("r53_zone_exists", reply)
            ELSE /\ pc' = IF z.val # NoneStr THEN "zone_id_to_row" ELSE "r53_create_zone"
                 /\ UNCHANGED noRaise
  /\ UNCHANGED << gdZone, r53HostedZones, cur, _records, nameservers, domains_data,
                  written, gdHist, createReply, applyHist, updReply, updReturn, nsReply, otherVars >>

\* lines 205-216: the create_hosted_zone call of r53_create_zone and its handlers
r53_create_zone ==
  /\ pc = "r53_create_zone"
  /\ \E reply \in CreateReplies(cur) :
       /\ createReply' = reply
       /\ IF reply = "ok"
            THEN /\ r53HostedZones' = Append(r53HostedZones, NewZone(cur))
                 /\ _r53_zone_id' = [_r53_zone_id EXCEPT ![cur] = NewZone(cur).Id]
            ELSE UNCHANGED << r53HostedZones, _r53_zone_id >>
  /\ pc' = "r53_create_zone_log"
  /\ UNCHANGED << gdZone, cur, _records, nameservers, domains_data, written, noRaise,
                  gdHist, zoneHist, applyHist, updReply, updReturn, nsReply, otherVars >>

\* line 218: the f-string of logger.debug evaluates self.r53_zone_id
r53_create_zone_log ==
  /\ pc = "r53_create_zone_log"
  /\ \E reply \in LookupReplies :
       LET z == r53_zone_id(cur, reply) IN
       /\ ZoneIdRead(reply, z)
       /\ IF z.raised
            THEN Raise("r53_create_zone", reply)
            ELSE pc' = "r53_create_zone_return" /\ UNCHANGED noRaise
  /\ UNCHANGED << gdZone, r53HostedZones, cur, _records, nameservers, domains_data,
                  written, gdHist, createReply, applyHist, updReply, updReturn, nsReply, otherVars >>

\* line 219: return self.r53_zone_id
r53_create_zone_return ==
  /\ pc = "r53_create_zone_return"
  /\ \E reply \in LookupReplies :
       LET z == r53_zone_id(cur, reply) IN
       /\ ZoneIdRead(reply, z)
       /\ IF z.raised
            THEN Raise("r53_create_zone", reply)
            ELSE pc' = "zone_id_to_row" /\ UNCHANGED noRaise
  /\ UNCHANGED << gdZone, r53HostedZones, cur, _records, nameservers, domains_data,
                  written, gdHist, createReply, applyHist, updReply, updReturn, nsReply, otherVars >>

\* line 346: domains_data.at[..., 'AWS Zone ID'] = domain.r53_zone_id
Main_zone_id_to_row ==
  /\ pc = "zone_id_to_row"
  /\ \E reply \in LookupReplies :
       LET z == r53_zone_id(cur, reply) IN
       /\ ZoneIdRead(reply, z)
       /\ IF z.raised
            THEN Raise("zone_id_to_row", reply) /\ UNCHANGED domains_data
            ELSE /\ pc' = "r53_create_records"
                 /\ domains_data' = [domains_data EXCEPT ![cur].zone_id = z.val]
                 /\ UNCHANGED noRaise
  /\ UNCHANGED << gdZone, r53HostedZones, cur, _records, nameservers, written,
                  gdHist, createReply, applyHist, updReply, updReturn, nsReply, otherVars >>

(* --------------------- Domain.r53_create_records ---------------------- *)
\* the characters str.split() separates fields at
Whitespace == {" ", "\t", "\n", "\r"}

RECURSIVE Fields(_, _, _)
\* the number of fields of data that start at position k or later, inField
\* telling whether position k - 1 lies within a field
Fields(data, k, inField) ==
  IF k > Len(data) THEN 0
  ELSE IF SubSeq(data, k, k) \in Whitespace THEN Fields(data, k + 1, FALSE)
  ELSE (IF inField THEN 0 ELSE 1) + Fields(data, k + 1, TRUE)

\* len(record['data'].split())
SplitLen(data) == Fields(data, 1, FALSE)

\* the loop body with the SRV test of lines 268-271 left out
RewriteRecord_anysrv(record, name) ==
  IF record.type \in {"SOA", "NS"} THEN [rec |-> record, keep |-> FALSE]
  ELSE IF record.type = "A" /\ record.data = "Parked" THEN [rec |-> record, keep |-> FALSE]
  ELSE IF record.type = "CNAME" /\ record.name = "_domainconnect"
    THEN [rec |-> record, keep |-> FALSE]
  ELSE
    LET r1 == IF record.type = "CNAME" /\ record.data = "@"
                THEN [record EXCEPT !.data = name] ELSE record
        r2 == IF r1.type = "A" /\ r1.data = "WebsiteBuilder Site"
                THEN [r1 EXCEPT !.data = "76.223.105.230"] ELSE r1
        r3 == IF r2.name = "@"
                THEN [r2 EXCEPT !.name = name]
                ELSE [r2 EXCEPT !.name = r2.name \o "." \o name]
        r4 == IF r3.type = "MX"
                THEN [r3 EXCEPT !.data = ToString(r3.priority) \o " " \o r3.data] ELSE r3
        r5 == IF r4.type = "TXT"
                THEN [r4 EXCEPT !.data = "\"" \o r4.data \o "\""] ELSE r4
    IN [rec |-> r5, keep |-> TRUE]

\* the loop body qualifying the apex name only (the else of line 256 left out)
RewriteRecord_relative(record, name) ==
  IF record.type \in {"SOA", "NS"} THEN [rec |-> record, keep |-> FALSE]
  ELSE IF record.type = "A" /\ record.data = "Parked" THEN [rec |-> record, keep |-> FALSE]
  ELSE IF record.type = "CNAME" /\ record.name = "_domainconnect"
    THEN [rec |-> record, keep |-> FALSE]
  ELSE
    LET r1 == IF record.type = "CNAME" /\ record.data = "@"
                THEN [record EXCEPT !.data = name] ELSE record
        r2 == IF r1.type = "A" /\ r1.data = "WebsiteBuilder Site"
                THEN [r1 EXCEPT !.data = "76.223.105.230"] ELSE r1
        r3 == IF r2.name = "@" THEN [r2 EXCEPT !.name = name] ELSE r2
        r4 == IF r3.type = "MX"
                THEN [r3 EXCEPT !.data = ToString(r3.priority) \o " " \o r3.data] ELSE r3
        r5 == IF r4.type = "TXT"
                THEN [r4 EXCEPT !.data = "\"" \o r4.data \o "\""] ELSE r4
    IN [rec |-> r5, keep |-> ~(r5.type = "SRV" /\ SplitLen(r5.data) # 4)]

\* lines 238-271 on one record: the record as the loop body leaves it (the
\* dict is rewritten in place) and whether it reaches the aggregation
RewriteRecord(record, name) ==
  IF record.type \in {"SOA", "NS"} THEN [rec |-> record, keep |-> FALSE]
  ELSE IF record.type = "A" /\ record.data = "Parked" THEN [rec |-> record, keep |-> FALSE]
  ELSE IF record.type = "CNAME" /\ record.name = "_domainconnect"
    THEN [rec |-> record, keep |-> FALSE]
  ELSE
    LET r1 == IF record.type = "CNAME" /\ record.data = "@"
                THEN [record EXCEPT !.data = name] ELSE record
        r2 == IF r1.type = "A" /\ r1.data = "WebsiteBuilder Site"
                THEN [r1 EXCEPT !.data = "76.223.105.230"] ELSE r1
        r3 == IF r2.name = "@"
                THEN [r2 EXCEPT !.name = name]
                ELSE [r2 EXCEPT !.name = r2.name \o "." \o name]
        r4 == IF r3.type = "MX"
                THEN [r3 EXCEPT !.data = ToString(r3.priority) \o " " \o r3.data] ELSE r3
        r5 == IF r4.type = "TXT"
                THEN [r4 EXCEPT !.data = "\"" \o r4.data \o "\""] ELSE r4
    IN [rec |-> r5, keep |-> ~(r5.type = "SRV" /\ SplitLen(r5.data) # 4)]

RECURSIVE KeyIndex(_, _, _)
\* position of the entry of aggregated_records with key (name, type), 0 if none
KeyIndex(agg, n, t) ==
  IF agg = <<>> THEN 0
  ELSE IF agg[Len(agg)].Name = n /\ agg[Len(agg)].Type = t THEN Len(agg)
  ELSE KeyIndex(SubSeq(agg, 1, Len(agg) - 1), n, t)

\* the aggregation giving an entry the TTL of the record added last
Aggregate_lastttl(agg, record) ==
  LET k == KeyIndex(agg, record.name, record.type)
      entry == [Name |-> record.name, Type |-> record.type, TTL |-> record.ttl,
                ResourceRecords |-> <<>>]
      agg1 == IF k = 0 THEN Append(agg, entry) ELSE agg
      k1 == IF k = 0 THEN Len(agg1) ELSE k
  IN [agg1 EXCEPT ![k1].ResourceRecords = Append(@, [Value |-> record.data]),
                  ![k1].TTL = record.ttl]

\* lines 273-284: aggregated_records after record has been added
Aggregate(agg, record) ==
  LET k == KeyIndex(agg, record.name, record.type)
      entry == [Name |-> record.name, Type |-> record.type, TTL |-> record.ttl,
                ResourceRecords |-> <<>>]
      agg1 == IF k = 0 THEN Append(agg, entry) ELSE agg
      k1 == IF k = 0 THEN Len(agg1) ELSE k
  IN [agg1 EXCEPT ![k1].ResourceRecords = Append(@, [Value |-> record.data])]

RECURSIVE AggregateAll(_, _, _, _)
\* the for loop of lines 237-284 over `list`: the records as left behind and
\* aggregated_records (in insertion order)
AggregateAll(list, name, done, agg) ==
  IF list = <<>> THEN [records |-> done, aggregated |-> agg]
  ELSE LET w == RewriteRecord(Head(list), name) IN
       AggregateAll(Tail(list), name, Append(done, w.rec),
                    IF w.keep THEN Aggregate(agg, w.rec) ELSE agg)

\* lines 287-293: the changes list
Changes(agg) == [k \in 1..Len(agg) |-> [Action |-> "UPSERT", ResourceRecordSet |-> agg[k]]]

\* the replies the registrar can give to one evaluation of self.records: it
\* is asked only when nothing truthy is cached
RecordsReplies(self) == IF Truthy(_records[self]) THEN {"unasked"} ELSE GdReplies
\* the replies the destination can give to one evaluation of self.r53_zone_id:
\* it is asked only when no id is cached
ZoneIdReplies(self) == IF _r53_zone_id[self] # NoneStr THEN {"unasked"} ELSE LookupReplies

\* botocore validates the parameters of change_resource_record_sets before
\* anything is sent: HostedZoneId is a string, Changes has a member at least
ParamsValid(id, changes) == id # NoneStr /\ Len(changes) >= 1

\* lines 228-305, 347-348: domain.r53_create_records() and the row's 'AWS DNS
\* Records Created'. The call's arguments are evaluated (self.r53_zone_id may
\* look the zone up once more), then change_resource_record_sets is called;
\* nothing catches what either raises (ParamValidationError included).
r53_create_records ==
  /\ pc = "r53_create_records"
  /\ \E greply \in RecordsReplies(cur), lreply \in ZoneIdReplies(cur),
        reply \in CallReplies :
       LET r == records(cur, greply)
           built == AggregateAll(r.val.list, DomainName(cur), <<>>, <<>>)
           z == r53_zone_id(cur, lreply)
       IN
       IF r.raised
         THEN /\ RecordsRead(greply, r)
              /\ Raise("r53_create_records", greply)
              /\ UNCHANGED << _r53_zone_id, zoneHist, applyHist, domains_data >>
         ELSE /\ _records' = [_records EXCEPT ![cur] = SomeList(built.records)]
              /\ RecordsAsked(greply, r)
              /\ ZoneIdRead(lreply, z)
              /\ IF z.raised
                   THEN /\ Raise("r53_create_records", lreply)
                        /\ UNCHANGED << applyHist, domains_data >>
                   ELSE /\ applyArg' = z.val
                        /\ changeBatch' = Changes(built.aggregated)
                        /\ IF ~ParamsValid(z.val, Changes(built.aggregated)) \/ reply # "ok"
                             THEN /\ Raise("change_resource_record_sets",
                                       IF ~ParamsValid(z.val, Changes(built.aggregated))
                                         THEN "ParamValidationError" ELSE reply)
                                  /\ UNCHANGED domains_data
                             ELSE /\ pc' = "r53_get_nameservers"
                                  /\ domains_data' = [domains_data EXCEPT ![cur].created = "Yes"]
                                  /\ UNCHANGED noRaise
  /\ UNCHANGED << gdZone, r53HostedZones, cur, nameservers, written,
                  createReply, updReply, updReturn, nsReply, otherVars >>

\* route53 get_hosted_zone: the zone with its delegation set, a zone without
\* one (a private zone: response['DelegationSet'] raises KeyError), or an error
GetZoneReplies == {"ok", "NoDelegationSet", "Error"}

\* how the try block of r53_get_nameservers ended: the evaluation z of
\* self.r53_zone_id raised, botocore refused Id=None, or get_hosted_zone
\* answered `reply`
NameserverRead(z, reply) ==
  IF z.raised THEN "LookupRaised"
  ELSE IF z.val = NoneStr THEN "ParamValidationError"
  ELSE reply

\* lines 190-197: the list r53_get_nameservers returns
NameServers(z, reply) ==
  IF NameserverRead(z, reply) = "ok" THEN DelegationSet ELSE <<>>

\* the loop body going on to the registrar update whatever the list holds
AfterNameservers_unguarded(got) == "gd_update_nameservers"

\* line 351: if nameservers:
AfterNameservers(got) ==
  IF Len(got) > 0 THEN "gd_update_nameservers" ELSE "has_mx_records"

\* lines 185-197, 350-351: nameservers = domain.r53_get_nameservers(); the try
\* block holds the evaluation of self.r53_zone_id and the get_hosted_zone call
r53_get_nameservers ==
  /\ pc = "r53_get_nameservers"
  /\ \E lreply \in LookupReplies, reply \in GetZoneReplies :
       LET z == r53_zone_id(cur, lreply)
           got == NameServers(z, reply)
       IN
       /\ ZoneIdRead(lreply, z)
       /\ nsReply' = NameserverRead(z, reply)
       /\ nameservers' = got
       /\ pc' = AfterNameservers(got)
  /\ UNCHANGED << gdZone, r53HostedZones, cur, _records, domains_data, written, noRaise,
                  gdHist, createReply, applyHist, updReply, updReturn, otherVars >>

\* lines 159-171, 352: domain.gd_update_nameservers(nameservers)
Main_gd_update_nameservers ==
  /\ pc = "gd_update_nameservers"
  /\ \E reply \in GdReplies :
       LET u == gd_update_nameservers(reply) IN
       /\ updReply' = reply
       /\ IF u.raised
            THEN Raise("gd_update_nameservers", reply) /\ UNCHANGED updReturn
            ELSE /\ pc' = "has_mx_records"
                 /\ updReturn' = YesNo(u.ret)
                 /\ UNCHANGED noRaise
  /\ UNCHANGED << gdZone, r53HostedZones, cur, _records, _r53_zone_id, nameservers,
                  domains_data, written, gdHist, zoneHist, createReply, applyHist,
                  nsReply, otherVars >>

\* line 357: domains_data.at[..., 'Supports Email'] = ... domain.has_mx_records()
Main_has_mx_records ==
  /\ pc = "has_mx_records"
  /\ \E reply \in GdReplies :
       LET r == records(cur, reply) IN
       /\ RecordsRead(reply, r)
       /\ IF r.raised
            THEN Raise("has_mx_records", reply) /\ UNCHANGED domains_data
            ELSE /\ domains_data' = [domains_data EXCEPT
                       ![cur].email = YesNo(has_mx_records(r.val.list))]
                 /\ pc' = "next_domain"
                 /\ UNCHANGED noRaise
  /\ UNCHANGED << gdZone, r53HostedZones, cur, _r53_zone_id, nameservers, written,
                  zoneHist, createReply, applyHist, updReply, updReturn, nsReply, otherVars >>

\* line 337: for domain in domains, after a loop body has ended. The history
\* starts afresh for the next domain; `nameservers` is rebound (line 350)
\* before the loop body reads it again.
Main_next_domain ==
  /\ pc = "next_domain"
  /\ cur < NumDomains
  /\ cur' = cur + 1
  /\ pc' = "gd_dns_exists"
  /\ nameservers' = <<>>
  /\ gdGetCalls' = 0
  /\ gdGetReplies' = <<>>
  /\ zoneLookups' = 0
  /\ createReply' = "none"
  /\ lookupAfterCreate' = FALSE
  /\ applyArg' = "-"
  /\ changeBatch' = <<>>
  /\ updReply' = "none"
  /\ updReturn' = "none"
  /\ nsReply' = "none"
  /\ UNCHANGED << gdZone, r53HostedZones, _records, _r53_zone_id, domains_data,
                  written, noRaise, otherVars >>

\* line 359: domains_data.to_csv(OUTPUT_FILE, index=False)
to_csv ==
  /\ pc = "next_domain"
  /\ cur = NumDomains
  /\ written' = TRUE
  /\ pc' = "done"
  /\ UNCHANGED << gdZone, r53HostedZones, cur, _records, _r53_zone_id, nameservers,
                  domains_data, noRaise, gdHist, zoneHist, createReply, applyHist,
                  updReply, updReturn, nsReply, otherVars >>

Next ==
  \/ Main_gd_dns_exists
  \/ Main_requires_zone_migration
  \/ Main_r53_zone_exists
  \/ r53_create_zone
  \/ r53_create_zone_log
  \/ r53_create_zone_return
  \/ Main_zone_id_to_row
  \/ r53_create_records
  \/ r53_get_nameservers
  \/ Main_gd_update_nameservers
  \/ Main_has_mx_records
  \/ Main_next_domain
  \/ to_csv

Spec == Init /\ [][Next]_vars

(* ---------------------------- SpecGateway ------------------------------ *)
\* GoDaddyClient._wait_until entered at time t: the clock and last_call_time
\* when it returns, the sleep overrunning by `over`
_wait_until(t, last, over) ==
  LET time_since_last_call == t - last IN
  IF time_since_last_call < wait_time
    THEN LET time_to_wait == wait_time - time_since_last_call
             woke == t + time_to_wait + over
         IN [now |-> woke, last_call_time |-> woke]
    ELSE [now |-> t, last_call_time |-> last]

\* the start times of the last two backend invocations, s being the newest
Started(s) == IF starts = <<>> THEN << s >> ELSE << starts[Len(starts)], s >>

\* the wall clock advances (a backend call takes time, the program computes)
Tick ==
  /\ now < MaxClock
  /\ now' = now + Quantum
  /\ UNCHANGED << last_call_time, starts, r53_starts, mainVars, decideVars >>

\* lines 60-62: GoDaddyClient.get_records
GoDaddyClient_get_records ==
  /\ now <= MaxClock
  /\ \E over \in {0, Quantum} :
       LET w == _wait_until(now, last_call_time, over) IN
       /\ now' = w.now
       /\ last_call_time' = w.last_call_time
       /\ starts' = Started(w.now)
  /\ UNCHANGED << r53_starts, mainVars, decideVars >>

\* lines 64-66: GoDaddyClient.update_domain
GoDaddyClient_update_domain ==
  /\ now <= MaxClock
  /\ \E over \in {0, Quantum} :
       LET w == _wait_until(now, last_call_time, over) IN
       /\ now' = w.now
       /\ last_call_time' = w.last_call_time
       /\ starts' = Started(w.now)
  /\ UNCHANGED << r53_starts, mainVars, decideVars >>

\* line 73: r53_client = boto3.client('route53'). An r53_client method is
\* invoked where the program stands, at the present time: nothing waits
r53_client_call ==
  /\ r53_starts' = IF r53_starts = <<>> THEN << now >>
                   ELSE << r53_starts[Len(r53_starts)], now >>
  /\ UNCHANGED << now, last_call_time, starts, mainVars, decideVars >>

\* line 107: r53_client.list_hosted_zones_by_name(DNSName=self.name)
r53_client_list_hosted_zones_by_name == r53_client_call

\* line 192: r53_client.get_hosted_zone(Id=self.r53_zone_id)
r53_client_get_hosted_zone == r53_client_call

\* line 206: r53_client.create_hosted_zone(...)
r53_client_create_hosted_zone == r53_client_call

\* line 298: r53_client.change_resource_record_sets(...)
r53_client_change_resource_record_sets == r53_client_call

\* GoDaddyClient.__init__ has run at time 0; the batch run is not started
InitGateway ==
  /\ gdZone = [i \in Rows |-> EmptyZone]
  /\ r53HostedZones = <<>>
  /\ ProgramStart

NextGateway ==
  \/ Tick
  \/ GoDaddyClient_get_records
  \/ GoDaddyClient_update_domain
  \/ r53_client_list_hosted_zones_by_name
  \/ r53_client_get_hosted_zone
  \/ r53_client_create_hosted_zone
  \/ r53_client_change_resource_record_sets

SpecGateway == InitGateway /\ [][NextGateway]_vars

(* ----------------------------- SpecDecide ------------------------------ *)
\* records the decision is exercised with: the parked apex record and its
\* near misses in name, type and data
RecordPool ==
  { ParkedApex, Rec("@", "A", "1.2.3.4"), Rec("www", "A", "Parked"),
    Rec("@", "TXT", "Parked") }

\* the registrar's list grows by one record
AddRecord ==
  /\ Len(recs) < MaxRecords
  /\ \E record \in RecordPool : recs' = Append(recs, record)
  /\ decision' = "none"
  /\ UNCHANGED << mainVars, gatewayVars >>

\* domain.requires_zone_migration() with self._records = recs
Decide ==
  /\ decision = "none"
  /\ decision' = YesNo(requires_zone_migration(recs))
  /\ UNCHANGED << recs, mainVars, gatewayVars >>

\* the empty record list, nothing decided; the batch run is not started
InitDecide ==
  /\ gdZone = [i \in Rows |-> EmptyZone]
  /\ r53HostedZones = <<>>
  /\ ProgramStart

NextDecide == AddRecord \/ Decide

SpecDecide == InitDecide /\ [][NextDecide]_vars

(* ---------------------------- SpecTransform ---------------------------- *)
\* a registrar record with its own TTL
RecT(n, t, d, ttl) == [Rec(n, t, d) EXCEPT !.ttl = ttl]

\* registrar records r53_create_records is exercised with: every record type
\* the loop body tells apart, apex and relative names, records that share a
\* (name, type) key with different TTLs, SRV data of 3, 4 and 5 fields
TransformPool ==
  { Rec("@", "A", "9.9.9.9"), Rec("www", "A", "1.2.3.4"),
    RecT("www", "A", "5.6.7.8", 600), ParkedApex,
    Rec("@", "A", "WebsiteBuilder Site"), Rec("www", "CNAME", "@"),
    Rec("_domainconnect", "CNAME", "_domainconnect.gd.domaincontrol.com"),
    Rec("@", "MX", "mail.example.net"), RecT("@", "TXT", "v=spf1 -all", 600),
    Rec("_sip._tcp", "SRV", "10 20 5060 sip.example.net"),
    Rec("_sip._tcp", "SRV", "10 20  5060\tsip.example.net "),
    Rec("_sip._tcp", "SRV", "10 20 5060"),
    Rec("_sip._tcp", "SRV", "10 20 5060 sip.example.net extra"),
    Rec("@", "NS", "ns1.domaincontrol.com"), Rec("@", "SOA", "ns1.domaincontrol.com") }

\* the loop body of __main__ stands at line 347 for the first domain: its
\* records were fetched, migration was decided, its hosted zone was found by
\* the lookup of line 343 and recorded in the row
InitTransform ==
  /\ \E list \in UNION {[1..k -> TransformPool] : k \in 1..MaxBatchRecords} :
       /\ requires_zone_migration(list)
       /\ gdZone = [i \in Rows |-> IF i = 1 THEN list ELSE EmptyZone]
       /\ _records = [i \in Rows |-> IF i = 1 THEN SomeList(list) ELSE NoneList]
  /\ r53HostedZones = << PreZone(1) >>
  /\ pc = "r53_create_records"
  /\ cur = 1
  /\ _r53_zone_id = [i \in Rows |-> IF i = 1 THEN PreZone(1).Id ELSE NoneStr]
  /\ nameservers = <<>>
  /\ domains_data = [i \in Rows |->
        IF i = 1 THEN [BlankRow EXCEPT !.has_dns = "Yes", !.requires = "Yes",
                                       !.zone_id = PreZone(1).Id]
                 ELSE BlankRow]
  /\ written = FALSE
  /\ fatal = "" /\ fatalClass = ""
  /\ gdGetCalls = 1 /\ gdGetReplies = << "ok" >>
  /\ zoneLookups = 1 /\ lookupAfterCreate = FALSE /\ createReply = "none"
  /\ applyArg = "-" /\ changeBatch = <<>>
  /\ updReply = "none" /\ updReturn = "none" /\ nsReply = "none"
  /\ now = 0 /\ last_call_time = 0 /\ starts = <<>> /\ r53_starts = <<>>
  /\ recs = <<>> /\ decision = "none"

NextTransform == r53_create_records

SpecTransform == InitTransform /\ [][NextTransform]_vars

(* ----------------------------- SpecLookup ----------------------------- *)
\* hosted zones of other names: a subdomain of the first domain (its name is a
\* suffix), a name the first domain's name is a prefix of, and a name that
\* ends like it
ForeignZones ==
  { [Name |-> "www." \o DomainName(1) \o ".", Id |-> "/hostedzone/F1"],
    [Name |-> DomainName(1) \o ".au.", Id |-> "/hostedzone/F2"],
    [Name |-> "x" \o DomainName(1) \o ".", Id |-> "/hostedzone/F3"] }

\* the zones a destination account may hold before the run
ZonePool == ForeignZones \cup {PreZone(i) : i \in Rows}

\* the batch run over live domains; the destination hosts up to MaxZones
\* zones of ZonePool, listed in any order
InitLookup ==
  /\ gdZone = [i \in Rows |-> LiveZone]
  /\ r53HostedZones \in UNION {[1..k -> ZonePool] : k \in 0..MaxZones}
  /\ ProgramStart

NextLookup == Next

SpecLookup == InitLookup /\ [][NextLookup]_vars

(* ------------------------------ claims --------------------------------- *)
\* the run of __main__ is over: it reached its end or an exception left it
RunEnded == pc \in {"done", "aborted"}

\* C1: a fatal error while processing one domain, in particular a failing
\* record-batch-apply call, never prevents the domains after it from being
\* attempted. Stated for the apply call: no run ends at a
\* change_resource_record_sets call that raised while rows of the batch have
\* not been reached by the loop.
C1_ApplyFailureKeepsBatchGoing ==
  (pc = "aborted" /\ fatal = "change_resource_record_sets" /\ applyArg # NoneStr)
    => cur = NumDomains

\* C2: the starts of any two consecutive backend invocations made through one
\* GoDaddyClient instance are at least wait_time (1000 ms) apart.
C2_MinimumSpacing ==
  Len(starts) = 2 => starts[2] - starts[1] >= 1000

\* zone resolution of the current domain ended without an id: the creation
\* call failed with an error other than already-exists and line 346 read None
ZoneUnresolved ==
  createReply = "Error" /\ domains_data[cur].zone_id = NoneStr

\* C3: when zone resolution yields no zone id the domain stalls there: no
\* record-batch apply call is made for it, no nameserver update is pushed,
\* and the run is not ended by its record apply but continues with the next
\* domain.
C3_StallsAtZoneCreation ==
  ZoneUnresolved =>
    /\ applyArg = "-"
    /\ updReply = "none"
    /\ ~(pc = "aborted" /\ fatal = "change_resource_record_sets")

\* C4: once a get_records call has returned a value for a domain (an empty
\* list included), get_records is not invoked again for that domain.
C4_FetchedOnce ==
  \A k \in 1..(Len(gdGetReplies) - 1) : gdGetReplies[k] # "ok"

IsParkedApex(record) ==
  record.name = "@" /\ record.type = "A" /\ record.data = "Parked"

C7_BadResponseMeansNoRecords ==
  (\E k \in 1..Len(gdGetReplies) : gdGetReplies[k] = "BadResponse") =>
    /\ domains_data[cur].has_dns # "Yes"
    /\ domains_data[cur].requires # "Yes"
    /\ zoneLookups = 0
    /\ createReply = "none"
    /\ applyArg = "-"
    /\ updReply = "none"

\* C8: gd_update_nameservers never propagates an error: it returns True when
\* update_domain succeeded and False for any error it raised, and the run
\* goes on.
C8_UpdateNeverPropagates ==
  updReply # "none" =>
    /\ updReturn = YesNo(updReply = "ok")
    /\ pc # "aborted"

\* C8 witness: update_domain raised, False was returned, the loop body goes on
C8_Witness ==
  /\ updReply = "Error"
  /\ updReturn = "No"
  /\ pc = "has_mx_records"

\* C9: both malformed-name errors of the zone lookup (InvalidInput and
\* InvalidDomainName) are caught: none of them ends the run.
C9_MalformedNameCaught ==
  pc = "aborted" => fatalClass \notin {"InvalidInput", "InvalidDomainName"}

\* C10: whatever the backends' failures, the run ends having written the
\* report, with a row for every input domain filled as far as it got.
C10_ReportWritten ==
  RunEnded =>
    /\ written
    /\ \A d \in Rows : domains_data[d].has_dns # ""

\* C11: the starts of any two consecutive invocations of the destination
\* backend (zone lookup, zone creation, zone read, record-batch apply) are at
\* least the minimum interval (1000 ms) apart, as for the registrar backend.
C11_DestinationSpacing ==
  Len(r53_starts) = 2 => r53_starts[2] - r53_starts[1] >= 1000

\* the change batch given to change_resource_record_sets, entry by entry
BatchEntries == [j \in 1..Len(changeBatch) |-> changeBatch[j].ResourceRecordSet]

\* the records of the current domain that reach the aggregation, in the
\* registrar's order, each as the loop body has rewritten it
Surviving ==
  LET src == gdZone[cur]
      w == [k \in 1..Len(src) |-> RewriteRecord(src[k], DomainName(cur))]
      kept == SelectSeq(w, LAMBDA x : x.keep)
  IN [k \in 1..Len(kept) |-> kept[k].rec]

\* C12: in the change batch every distinct (final name, type) pair appears in
\* exactly one entry; the entry's value list holds the data of every
\* surviving source record with that key, in the order they were met, and its
\* TTL is that of the first of them.
C12_OneEntryPerKey ==
  applyArg # "-" =>
    LET E == BatchEntries
        Of(e) == SelectSeq(Surviving, LAMBDA r : r.name = e.Name /\ r.type = e.Type)
    IN /\ \A i, j \in 1..Len(E) :
            i # j => << E[i].Name, E[i].Type >> # << E[j].Name, E[j].Type >>
       /\ \A k \in 1..Len(Surviving) : \E j \in 1..Len(E) :
            E[j].Name = Surviving[k].name /\ E[j].Type = Surviving[k].type
       /\ \A j \in 1..Len(E) :
            LET m == Of(E[j]) IN
            /\ m # <<>>
            /\ E[j].ResourceRecords = [i \in 1..Len(m) |-> [Value |-> m[i].data]]
            /\ E[j].TTL = m[1].ttl

\* C12 witness: a batch of two entries was submitted, one of them holding the
\* values of two records whose TTLs differ
C12_Witness ==
  /\ applyArg # "-"
  /\ Len(changeBatch) = 2
  /\ \E j \in 1..Len(changeBatch) :
       /\ Len(BatchEntries[j].ResourceRecords) = 2
       /\ \E a, b \in 1..Len(Surviving) :
            /\ a < b
            /\ Surviving[a].name = Surviving[b].name
            /\ Surviving[a].type = Surviving[b].type
            /\ Surviving[a].ttl # Surviving[b].ttl

\* the SRV values with exactly four whitespace-separated fields among those
\* the registrar serves
WellFormedSrv == {"10 20 5060 sip.example.net", "10 20  5060\tsip.example.net "}

\* C13: the change batch never holds an entry of type SOA or NS, an A value
\* 'Parked', a CNAME entry for the name '_domainconnect', or an SRV value that
\* does not have exactly four whitespace-separated fields.
C13_ExcludedNeverSubmitted ==
  applyArg # "-" =>
    \A j \in 1..Len(changeBatch) :
      LET e == BatchEntries[j]
          Values == {e.ResourceRecords[v].Value : v \in 1..Len(e.ResourceRecords)}
      IN /\ e.Type \notin {"SOA", "NS"}
         /\ e.Type = "A" => "Parked" \notin Values
         /\ ~(/\ e.Type = "CNAME"
              /\ e.Name \in {"_domainconnect", "_domainconnect." \o DomainName(cur)})
         /\ e.Type = "SRV" => Values \subseteq WellFormedSrv

\* C13 witness: a list with an NS record and an SRV record of three fields
\* gave a non-empty batch that the destination accepted
C13_Witness ==
  /\ pc = "r53_get_nameservers"
  /\ Len(changeBatch) >= 1
  /\ \E k \in 1..Len(gdZone[cur]) : gdZone[cur][k].type = "NS"
  /\ \E k \in 1..Len(gdZone[cur]) :
       gdZone[cur][k].type = "SRV" /\ gdZone[cur][k].data = "10 20 5060"

\* C14: every entry name of the change batch is fully qualified: the name of a
\* record named '@' is the domain's name, any other name is
\* '<relativeName>.<domainName>'; no entry keeps '@' or a relative name.
C14_NamesFullyQualified ==
  applyArg # "-" =>
    LET src == gdZone[cur]
        Qualified(n) == IF n = "@" THEN DomainName(cur) ELSE n \o "." \o DomainName(cur)
    IN \A j \in 1..Len(changeBatch) :
         LET e == BatchEntries[j] IN
         /\ e.Name # "@"
         /\ \A k \in 1..Len(src) : e.Name # src[k].name
         /\ \E k \in 1..Len(src) :
              src[k].type = e.Type /\ e.Name = Qualified(src[k].name)

\* C14 witness: the submitted batch has an entry for the apex and an entry
\* for a relative name
C14_Witness ==
  /\ applyArg # "-"
  /\ \E j \in 1..Len(changeBatch) : BatchEntries[j].Name = DomainName(cur)
  /\ \E j \in 1..Len(changeBatch) : BatchEntries[j].Name = "www." \o DomainName(cur)

\* the loop body stands at, or has made, the registrar nameserver update of
\* the current domain
UpdateIssued == pc = "gd_update_nameservers" \/ updReply # "none"

\* C15: the registrar nameserver update of a domain is issued only after the
\* domain's record batch was applied without error, and only with the
\* non-empty nameserver list the destination zone returned; when the
\* nameserver read fails or returns nothing, no update is pushed.
C15_UpdateAfterApplyAndNameservers ==
  /\ UpdateIssued =>
       /\ applyArg # "-"
       /\ domains_data[cur].created = "Yes"
       /\ ~(fatal = "change_resource_record_sets")
       /\ nsReply = "ok"
       /\ nameservers = DelegationSet
       /\ Len(nameservers) > 0
  /\ nsReply \notin {"none", "ok"} => ~UpdateIssued /\ nameservers = <<>>

\* C15 witness: the batch was applied, the zone returned its nameservers and
\* update_domain has been called with them
C15_Witness ==
  /\ updReply = "ok"
  /\ domains_data[cur].created = "Yes"
  /\ nameservers = DelegationSet

\* the loop body has decided against migrating the current domain: line 339
\* found no records, or requires_zone_migration returned False
NoMigration ==
  domains_data[cur].has_dns = "No" \/ domains_data[cur].requires = "No"

\* C16: for a domain with no DNS presence, or one that is not eligible,
\* processing stops after the decision: no zone is looked up or created, no
\* record batch is applied, no nameserver update is pushed; the domain is
\* reported as 'no migration' and the loop goes on to the next domain.
C16_NoMigrationStopsThere ==
  NoMigration =>
    /\ zoneLookups = 0
    /\ createReply = "none"
    /\ applyArg = "-"
    /\ updReply = "none"
    /\ domains_data[cur].requires # "Yes"
    /\ pc # "aborted"

\* C17: within a run a domain's zone id is written once: once it is not None
\* it never changes and no further zone lookup is issued for the domain;
\* create_hosted_zone is called at most once per domain, and only after a
\* zone lookup was made that left the domain without a zone id.
C17_ZoneIdWriteOnce ==
  [][ /\ \A d \in Rows :
           _r53_zone_id[d] # NoneStr => _r53_zone_id'[d] = _r53_zone_id[d]
      /\ cur' = cur =>
           /\ _r53_zone_id[cur] # NoneStr => zoneLookups' = zoneLookups
           /\ createReply # "none" => createReply' = createReply
           /\ createReply' # createReply =>
                zoneLookups >= 1 /\ _r53_zone_id[cur] = NoneStr
    ]_vars

\* C17 witness: the zone was created after one lookup found none, and the id
\* set then has been read at lines 218, 219, 346, 299 and 192 without another
\* lookup
C17_Witness ==
  /\ pc = "gd_update_nameservers"
  /\ createReply = "ok"
  /\ zoneLookups = 1
  /\ _r53_zone_id[cur] = NewZone(cur).Id

\* the ids of the hosted zones whose name is row d's name plus a trailing dot
ZoneIdsOf(d) ==
  {r53HostedZones[k].Id : k \in {j \in 1..Len(r53HostedZones) :
                                   r53HostedZones[j].Name = DomainName(d) \o "."}}

\* C18: the zone lookup gives a domain only the id of a zone whose registered
\* name equals the domain's name plus a trailing dot; when the destination
\* holds only zones of other names (names that share a prefix or a suffix
\* with it included), the domain's zone id stays absent.
C18_LookupMatchesExactName ==
  \A d \in Rows :
    /\ _r53_zone_id[d] # NoneStr => _r53_zone_id[d] \in ZoneIdsOf(d)
    /\ ZoneIdsOf(d) = {} => _r53_zone_id[d] = NoneStr

\* C18 witness: the listing held zones of other names before the domain's
\* own zone, and the lookup of line 343 gave the domain its own zone's id
C18_Witness ==
  /\ pc = "zone_id_to_row"
  /\ createReply = "none"
  /\ Len(r53HostedZones) >= 2
  /\ r53HostedZones[1] \in ForeignZones
  /\ _r53_zone_id[cur] = PreZone(cur).Id

\* C19: whenever the loop body applies a record batch for a domain that
\* requires migration, the batch given to change_resource_record_sets holds
\* at least one change.
C19_BatchNeverEmpty ==
  applyArg # "-" => Len(changeBatch) >= 1

\* C20: building and applying the change batch leaves the domain's cached
\* records as they were fetched: the list read after r53_create_records
\* equals the list read before it (so that a second call would submit the
\* same batch).
C20_CachedRecordsUnchanged ==
  applyArg # "-" => _records[cur] = SomeList(gdZone[cur])

=============================================================================
